---------------------------- MODULE Spec2Model ----------------------------
(***************************************************************************)
(* Salary calculator backend (Poster POS): the calculation service         *)
(* (services/salaryService.js), the Poster data shaping                    *)
(* (services/posterService.js) and the request handler with its database   *)
(* transaction (controllers/salaryController.js).                          *)
(*                                                                         *)
(* Money.  Input amounts (transaction totals, inventory differences, the   *)
(* shift rate) are integers counting HALF-CENTS, so that values below the  *)
(* cent and exact rounding ties occur.  Unrounded results are exact        *)
(* rationals of a cent, [n, d] meaning n/d cents with d > 0; rounded       *)
(* fields are integers counting cents.  JavaScript's binary floating point *)
(* is modelled by exact arithmetic.                                        *)
(***************************************************************************)
EXTENDS Integers, Sequences, FiniteSets, TLC

VARIABLES
  pc,            \* position of the running operation
  params,        \* calculationParams handed to calculateSalaries
  employeesRes,  \* outcome of access.getEmployees
  transRes,      \* outcome of dash.getTransactions
  revisionsRes,  \* outcome of storage.getInventoryRevisions
  result,        \* what calculateSalaries returned or threw
  req,           \* body of the request being handled
  io,            \* the I/O the current request has issued, in order
  response,      \* what the handler answered
  db,            \* committed rows of the database
  client,        \* the pool client of saveSalaryReport and its transaction
  dbBefore,      \* the committed rows when the request arrived
  saveIdx,       \* position of the save loop in salaryData.employees
  dbEmployeeId,  \* the loop's dbEmployeeId
  pool,          \* the pg pool: clients checked out, releases of the running save
  sessions       \* concurrent saveSalaryReport calls, each on its own client

calcVars == <<params, employeesRes, transRes, revisionsRes, result>>
handlerVars == <<req, io, response, db, client, dbBefore, saveIdx, dbEmployeeId,
                 pool, sessions>>
vars == <<pc, params, employeesRes, transRes, revisionsRes, result,
          req, io, response, db, client, dbBefore, saveIdx, dbEmployeeId,
          pool, sessions>>

---------------------------------------------------------------------------
(* Bounds of the model *)

MaxEmployees == 2      \* longest employee list the Poster API returns
MaxTransactions == 2   \* longest transaction list the Poster API returns

---------------------------------------------------------------------------
(* Generic helpers *)

Abs(x) == IF x < 0 THEN -x ELSE x

SeqsUpTo(S, n) == UNION {[1..k -> S] : k \in 0..n}

(* reduce((sum, x) => sum + x, 0) over a list of numbers *)
RECURSIVE SumSeq(_)
SumSeq(s) == IF s = <<>> THEN 0 ELSE Head(s) + SumSeq(Tail(s))

Max(S) == CHOOSE x \in S : \A y \in S : x >= y

Min(S) == CHOOSE x \in S : \A y \in S : x <= y

RECURSIVE Ascending(_)
Ascending(S) == IF S = {} THEN <<>> ELSE <<Min(S)>> \o Ascending(S \ {Min(S)})

(* Exact rationals of a cent *)
Rat(n, d) == [n |-> n, d |-> d]
RatAdd(a, b) == Rat(a.n * b.d + b.n * a.d, a.d * b.d)
RatSub(a, b) == Rat(a.n * b.d - b.n * a.d, a.d * b.d)
RatEq(a, b) == a.n * b.d = b.n * a.d

(* Math.round(x): the integer nearest to x, a tie going towards +Infinity, *)
(* that is floor(x + 1/2).  The code applies it to the value in cents      *)
(* (x * 100) and divides by 100 again.                                     *)
MathRound(q) == (2 * q.n + q.d) \div (2 * q.d)

(* A field the object lacks is undefined *)
Has(p, f) == f \in DOMAIN p

(* An outcome of an awaited call: a value, or a thrown error *)
Ok(v) == [ok |-> TRUE, value |-> v]
Thrown(msg) == [ok |-> FALSE, error |-> msg]

---------------------------------------------------------------------------
(* services/posterService.js *)

(* makeRequest: the Poster API answers with data, or the request fails and *)
(* makeRequest throws.                                                     *)
RequestFailed == Thrown("Failed to fetch data from Poster API")

(* a variant: a failed request is answered with an empty list, as           *)
(* getSpotInfo does                                                        *)
getEmployeesSwallows(res) == IF res.ok THEN Ok(res.value) ELSE Ok(<<>>)

getEmployees(res) == IF res.ok THEN Ok(res.value) ELSE res

getTransactions(res) == IF res.ok THEN Ok(res.value) ELSE res

(* a variant: only user_id identifies the employee *)
TxEmployeeIdUserOnly(t) == IF Has(t, "user_id") THEN t.user_id ELSE 0

(* transaction.user_id || transaction.staff_id; 0 stands for a falsy or   *)
(* missing identifier                                                      *)
TxEmployeeId(t) ==
  IF Has(t, "user_id") /\ t.user_id # 0 THEN t.user_id
  ELSE IF Has(t, "staff_id") THEN t.staff_id
  ELSE 0

(* A timestamp string is the sequence of its parts, " " being the space    *)
(* between date and time: <<"d1", " ", "t1">>.  The empty string is <<>>.  *)
HasDate(t) ==
  \/ Has(t, "date_close") /\ t.date_close # <<>>
  \/ Has(t, "date")

(* transaction.date_close || transaction.date *)
TransactionDate(t) ==
  IF Has(t, "date_close") /\ t.date_close # <<>> THEN t.date_close ELSE t.date

(* str.split(' ')[0]: what precedes the first space *)
RECURSIVE SplitFirst(_)
SplitFirst(str) ==
  IF str = <<>> \/ Head(str) = " " THEN <<>>
  ELSE <<Head(str)>> \o SplitFirst(Tail(str))

(* a variant: the time of day is kept *)
DateOnlyKeepsTime(t) == TransactionDate(t)

DateOnly(t) == SplitFirst(TransactionDate(t))

(* parseFloat(transaction.total || 0) *)
Total(t) == IF Has(t, "total") THEN t.total ELSE 0

RECURSIVE RevenueOf(_, _)
RevenueOf(transactions, employeeId) ==
  IF transactions = <<>> THEN 0
  ELSE (IF TxEmployeeId(Head(transactions)) = employeeId
          THEN Total(Head(transactions)) ELSE 0)
       + RevenueOf(Tail(transactions), employeeId)

ShiftsOf(transactions, employeeId) ==
  {DateOnly(transactions[i]) :
     i \in {j \in DOMAIN transactions : TxEmployeeId(transactions[j]) = employeeId}}

(* undefined.split: a transaction of an employee without date_close and   *)
(* date                                                                    *)
DateMissing == Thrown("TypeError: Cannot read properties of undefined (reading 'split')")

(* Object.keys lists integer keys in ascending order *)
getEmployeeRevenue(res) ==
  IF ~res.ok THEN res
  ELSE IF \E i \in DOMAIN res.value :
            TxEmployeeId(res.value[i]) # 0 /\ ~HasDate(res.value[i])
    THEN DateMissing
  ELSE LET transactions == res.value
           ids == {TxEmployeeId(transactions[i]) : i \in DOMAIN transactions} \ {0}
           keys == Ascending(ids)
       IN Ok([k \in DOMAIN keys |->
                [employeeId |-> keys[k],
                 revenue |-> RevenueOf(transactions, keys[k]),
                 shiftsCount |-> Cardinality(ShiftsOf(transactions, keys[k]))]])

InventoryFallback(month, year) ==
  [month |-> month, year |-> year, totalLoss |-> 0, revisionsCount |-> 0]

(* parseFloat(revision.difference || 0) *)
Difference(revision) == revision

(* a variant: no catch around the revisions request, the error propagates *)
getInventoryResultsRethrows(month, year, res) ==
  IF res.ok
    THEN Ok([month |-> month, year |-> year,
             totalLoss |-> SumSeq([i \in DOMAIN res.value |-> Difference(res.value[i])]),
             revisionsCount |-> Len(res.value)])
    ELSE res

getInventoryResults(month, year, res) ==
  IF res.ok
    THEN Ok([month |-> month, year |-> year,
             totalLoss |-> SumSeq([i \in DOMAIN res.value |-> Difference(res.value[i])]),
             revisionsCount |-> Len(res.value)])
    ELSE Ok(InventoryFallback(month, year))

---------------------------------------------------------------------------
(* services/salaryService.js *)

(* Strings of decimal digits are sequences of digits.  String(n) of a      *)
(* non-negative integer:                                                   *)
RECURSIVE DigitsOf(_)
DigitsOf(n) == IF n < 10 THEN <<n>> ELSE DigitsOf(n \div 10) \o <<n % 10>>

(* str.padStart(2, '0') *)
PadStart2(str) == IF Len(str) >= 2 THEN str ELSE <<0>> \o str

(* The Date arithmetic of ECMAScript, in days since 1 January 1970 *)
DaysInYear(y) ==
  IF y % 4 # 0 THEN 365
  ELSE IF y % 100 # 0 THEN 366
  ELSE IF y % 400 # 0 THEN 365
  ELSE 366

DayFromYear(y) ==
  365 * (y - 1970) + ((y - 1969) \div 4) - ((y - 1901) \div 100) + ((y - 1601) \div 400)

(* Days of a year that precede its month mn (0 = January) *)
DaysBeforeMonth(y, mn) ==
  LET common == <<0, 31, 59, 90, 120, 151, 181, 212, 243, 273, 304, 334>>
  IN common[mn + 1] + (IF mn >= 2 /\ DaysInYear(y) = 366 THEN 1 ELSE 0)

(* a variant: new Date(year, month - 1, 0), the month taken as 0-based     *)
MakeDayOfMonthBefore(year, month, date) ==
  LET ym == year + ((month - 1) \div 12)
      mn == (month - 1) % 12
  IN DayFromYear(ym) + DaysBeforeMonth(ym, mn) + date - 1

(* MakeDay(year, month, date): month is 0-based and may be 12, date may be *)
(* 0, the day before the first of the month                                *)
MakeDay(year, month, date) ==
  LET ym == year + (month \div 12)
      mn == month % 12
  IN DayFromYear(ym) + DaysBeforeMonth(ym, mn) + date - 1

(* getDate() of a day *)
DateFromTime(day) ==
  LET y == CHOOSE c \in ((day \div 366) + 1969)..((day \div 365) + 1971) :
             DayFromYear(c) <= day /\ day < DayFromYear(c + 1)
      dayWithinYear == day - DayFromYear(y)
      mn == CHOOSE m \in 0..11 :
              /\ DaysBeforeMonth(y, m) <= dayWithinYear
              /\ (m = 11 \/ dayWithinYear < DaysBeforeMonth(y, m + 1))
  IN dayWithinYear - DaysBeforeMonth(y, mn) + 1

(* new Date(year, month, 0).getDate() *)
LastDay(year, month) == DateFromTime(MakeDay(year, month, 0))

(* calculateSalaries, lines 32-34 *)
DateFrom(year, month) == DigitsOf(year) \o PadStart2(DigitsOf(month)) \o <<0, 1>>
DateTo(year, month) ==
  DigitsOf(year) \o PadStart2(DigitsOf(month)) \o DigitsOf(LastDay(year, month))

EmployeeIdOf(employee) == IF employee.user_id # 0 THEN employee.user_id ELSE employee.id

(* a variant: the lookup ignores the employee id *)
MapLookupAnyEmployee(revenueData, employeeId) ==
  IF revenueData = <<>> THEN [employeeId |-> employeeId, revenue |-> 0, shiftsCount |-> 0]
  ELSE revenueData[Len(revenueData)]

(* revenueMap / shiftsMap: the last aggregate of an id wins, a missing id is 0 *)
MapLookup(revenueData, employeeId) ==
  LET at == {i \in DOMAIN revenueData : revenueData[i].employeeId = employeeId}
  IN IF at = {} THEN [employeeId |-> employeeId, revenue |-> 0, shiftsCount |-> 0]
     ELSE revenueData[Max(at)]

TotalRevenue(revenueData) ==
  SumSeq([i \in DOMAIN revenueData |-> revenueData[i].revenue])

(* The unrounded figures of one employee, in cents *)
BaseSalary(shiftsCount, shiftRate) == Rat(shiftsCount * shiftRate, 2)

RevenueBonus(revenue, revenuePercent) == Rat(revenue * revenuePercent, 200)

(* a variant: a surplus is shared out like a shortage *)
InventoryDeductionAlways(revenue, totalLoss, totalRevenue) ==
  IF totalRevenue > 0
    THEN Rat(Abs(totalLoss) * revenue, 2 * totalRevenue)
    ELSE Rat(0, 1)

(* a variant: every earner is charged the whole shortage, not a share *)
InventoryDeductionWholeLoss(revenue, totalLoss, totalRevenue) ==
  IF totalLoss < 0 /\ totalRevenue > 0 /\ revenue > 0
    THEN Rat(Abs(totalLoss), 2)
    ELSE Rat(0, 1)

InventoryDeduction(revenue, totalLoss, totalRevenue) ==
  IF totalLoss < 0 /\ totalRevenue > 0
    THEN Rat(Abs(totalLoss) * revenue, 2 * totalRevenue)
    ELSE Rat(0, 1)

(* a variant: the deduction is left out, as calculateEmployeeSalary does *)
TotalSalaryNoDeduction(baseSalary, revenueBonus, inventoryDeduction) ==
  RatAdd(baseSalary, revenueBonus)

TotalSalary(baseSalary, revenueBonus, inventoryDeduction) ==
  RatSub(RatAdd(baseSalary, revenueBonus), inventoryDeduction)

Unrounded(employee, revenueData, inventoryResults, p) ==
  LET employeeId == EmployeeIdOf(employee)
      shiftsCount == MapLookup(revenueData, employeeId).shiftsCount
      revenue == MapLookup(revenueData, employeeId).revenue
      baseSalary == BaseSalary(shiftsCount, p.shiftRate)
      revenueBonus == RevenueBonus(revenue, p.revenuePercent)
      inventoryDeduction ==
        InventoryDeduction(revenue, inventoryResults.totalLoss, TotalRevenue(revenueData))
  IN [employeeId |-> employeeId,
      shiftsCount |-> shiftsCount,
      revenue |-> Rat(revenue, 2),
      baseSalary |-> baseSalary,
      revenueBonus |-> revenueBonus,
      inventoryDeduction |-> inventoryDeduction,
      totalSalary |-> TotalSalary(baseSalary, revenueBonus, inventoryDeduction)]

SalaryLine(employee, revenueData, inventoryResults, p) ==
  LET u == Unrounded(employee, revenueData, inventoryResults, p)
  IN [employeeId |-> u.employeeId,
      shiftsCount |-> u.shiftsCount,
      revenue |-> MathRound(u.revenue),
      baseSalary |-> MathRound(u.baseSalary),
      revenueBonus |-> MathRound(u.revenueBonus),
      inventoryDeduction |-> MathRound(u.inventoryDeduction),
      totalSalary |-> MathRound(u.totalSalary)]

(* salaryResults: one line per entry of the employee list, in its order *)
SalaryResults(employees, revenueData, inventoryResults, p) ==
  [i \in DOMAIN employees |-> SalaryLine(employees[i], revenueData, inventoryResults, p)]

Worked(emp) == emp.shiftsCount > 0

(* a variant: the filter keeps every line *)
WorkingEmployeesUnfiltered(salaryResults) == salaryResults

WorkingEmployees(salaryResults) == SelectSeq(salaryResults, Worked)

(* The comparator of the final sort, (a, b) => b.totalSalary - a.totalSalary *)
(* a variant: the operands swapped *)
CompareAscending(a, b) == a.totalSalary - b.totalSalary

Compare(a, b) == b.totalSalary - a.totalSalary

(* Array.prototype.sort is stable (ECMAScript 2019): an element goes after *)
(* every element the comparator does not put behind it.                    *)
RECURSIVE SortInsert(_, _)
SortInsert(sorted, x) ==
  IF sorted = <<>> THEN <<x>>
  ELSE IF Compare(Head(sorted), x) <= 0
         THEN <<Head(sorted)>> \o SortInsert(Tail(sorted), x)
         ELSE <<x>> \o sorted

RECURSIVE Sort(_)
Sort(s) == IF s = <<>> THEN <<>>
           ELSE SortInsert(Sort(SubSeq(s, 1, Len(s) - 1)), s[Len(s)])

CalculationError == Thrown("Failed to calculate salaries")

(* calculateSalaries after Promise.all has settled: e, r, inv are the      *)
(* outcomes of getEmployees, getEmployeeRevenue and getInventoryResults.   *)
calculateSalaries(p, e, r, inv) ==
  IF ~e.ok \/ ~r.ok \/ ~inv.ok THEN CalculationError
  ELSE LET employees == e.value
           revenueData == r.value
           inventoryResults == inv.value
           totalRevenue == TotalRevenue(revenueData)
           salaryResults == SalaryResults(employees, revenueData, inventoryResults, p)
           workingEmployees == WorkingEmployees(salaryResults)
       IN Ok([success |-> TRUE,
              period |-> [month |-> p.month, year |-> p.year],
              parameters |-> [shiftRate |-> p.shiftRate,
                              revenuePercent |-> p.revenuePercent],
              inventory |-> [month |-> p.inventoryMonth,
                             year |-> p.inventoryYear,
                             totalLoss |-> MathRound(Rat(inventoryResults.totalLoss, 2)),
                             revisionsCount |-> inventoryResults.revisionsCount],
              summary |-> [employeesCount |-> Len(workingEmployees),
                           totalRevenue |-> MathRound(Rat(totalRevenue, 2)),
                           totalBaseSalary |-> SumSeq([i \in DOMAIN workingEmployees |-> workingEmployees[i].baseSalary]),
                           totalRevenueBonus |-> SumSeq([i \in DOMAIN workingEmployees |-> workingEmployees[i].revenueBonus]),
                           totalInventoryDeduction |-> SumSeq([i \in DOMAIN workingEmployees |-> workingEmployees[i].inventoryDeduction]),
                           totalSalary |-> SumSeq([i \in DOMAIN workingEmployees |-> workingEmployees[i].totalSalary])],
              employees |-> Sort(workingEmployees)])

(* validateCalculationParams *)
FalsyText(p, f) == ~Has(p, f) \/ p[f] = ""

(* A number field can hold NaN (parseInt / parseFloat of text that is no   *)
(* number): p.nan, where present, names the fields that do.  !NaN is true, *)
(* every comparison with NaN is false.                                     *)
IsNaN(p, f) == Has(p, "nan") /\ f \in p.nan
FalsyNumber(p, f) == ~Has(p, f) \/ IsNaN(p, f) \/ p[f] = 0
Less(p, f, k) == ~IsNaN(p, f) /\ p[f] < k
(* a variant: no upper limit is checked *)
GreaterNever(p, f, k) == FALSE

Greater(p, f, k) == ~IsNaN(p, f) /\ p[f] > k

When(cond, msg) == IF cond THEN <<msg>> ELSE <<>>

ValidationErrors(p) ==
  When(FalsyText(p, "account"), "Account is required")
  \o When(FalsyText(p, "accessToken"), "Access token is required")
  \o When(FalsyNumber(p, "month") \/ Less(p, "month", 1) \/ Greater(p, "month", 12),
          "Invalid month (must be 1-12)")
  \o When(FalsyNumber(p, "year") \/ Less(p, "year", 2000), "Invalid year")
  \o When(~Has(p, "shiftRate") \/ Less(p, "shiftRate", 0), "Invalid shift rate")
  \o When(~Has(p, "revenuePercent") \/ Less(p, "revenuePercent", 0)
             \/ Greater(p, "revenuePercent", 100),
          "Invalid revenue percent (must be 0-100)")

(* a variant: nothing is checked *)
validateNothing(p) == [isValid |-> TRUE, errors |-> <<>>]

validateCalculationParams(p) ==
  [isValid |-> Len(ValidationErrors(p)) = 0, errors |-> ValidationErrors(p)]

---------------------------------------------------------------------------
(* What the Poster API can answer *)

EmployeeRecords ==
  {[user_id |-> 1, id |-> 0], [user_id |-> 2, id |-> 0], [user_id |-> 0, id |-> 3]}

TransactionRecords ==
  {[user_id |-> 1, staff_id |-> 0, total |-> 2, date_close |-> <<"d1", " ", "t1">>],
   [user_id |-> 1, staff_id |-> 0, total |-> 1, date_close |-> <<"d1", " ", "t2">>],
   [user_id |-> 1, staff_id |-> 0, total |-> 2, date_close |-> <<"d2", " ", "t1">>],
   [user_id |-> 2, staff_id |-> 0, total |-> 2, date_close |-> <<"d1", " ", "t1">>],
   [user_id |-> 2, staff_id |-> 0, total |-> 0, date_close |-> <<"d2", " ", "t2">>],
   [user_id |-> 0, staff_id |-> 3, total |-> 1, date_close |-> <<"d1", " ", "t1">>],
   [user_id |-> 0, staff_id |-> 0, total |-> 2, date_close |-> <<"d1", " ", "t1">>]}

RevisionLists == {<<>>, <<-1>>, <<-6, 1>>, <<3>>}

EmployeeAnswers == {RequestFailed} \cup {Ok(l) : l \in SeqsUpTo(EmployeeRecords, MaxEmployees)}

TransactionAnswers ==
  {RequestFailed} \cup {Ok(l) : l \in SeqsUpTo(TransactionRecords, MaxTransactions)}

RevisionAnswers == {RequestFailed} \cup {Ok(l) : l \in RevisionLists}

ShiftRates == {0, 1}
RevenuePercents == {0, 50}

ValidParams ==
  {[account |-> "acc", accessToken |-> "tok",
    month |-> 1, year |-> 2024, inventoryMonth |-> 1, inventoryYear |-> 2024,
    shiftRate |-> sr, revenuePercent |-> rp] : sr \in ShiftRates, rp \in RevenuePercents}

NoResult == [ok |-> FALSE, error |-> "pending"]
NoAnswer == [ok |-> FALSE, error |-> "not requested"]

---------------------------------------------------------------------------
(* The PostgreSQL store (migrations/001_initial_schema.sql) as the         *)
(* controller uses it.  A client is "idle" (no transaction), "open",       *)
(* "aborted" (a statement of the transaction failed) or "broken" (the      *)
(* connection is lost, the server has discarded the transaction).          *)
(* client.work is the transaction's own view of the rows while it is open. *)

EmptyTables == [inventory_results |-> {}, employees |-> {}, salary_reports |-> {}]

NoClient == [status |-> "released", work |-> EmptyTables]

(* config/database.js: new Pool({ max: 20, ... }) *)
PoolMax == 20

NoneCheckedOut == [checkedOut |-> 0, releases |-> 0]

(* pool.connect() hands out a client *)
Acquire(p) == [p EXCEPT !.checkedOut = @ + 1]

(* client.release() *)
Release(p) == [checkedOut |-> p.checkedOut - 1, releases |-> p.releases + 1]

(* a variant: release() follows the try / catch instead of standing in a   *)
(* finally block, so a ROLLBACK that throws skips it                       *)
FinallyUnlessRollbackFails(p, path) ==
  IF path = "rollback failed" THEN p ELSE Release(p)

(* finally { client.release() }: on every path out of the try / catch *)
Finally(p, path) == Release(p)

NoSessions == <<>>

(* locations: the one connected location *)
Locations == {[id |-> 1, poster_account |-> "acc", poster_access_token |-> "tok"]}

LocationRows(locationId) == {l \in Locations : l.id = locationId}

(* The rows a statement of the client sees *)
View(c, store) == IF c.status = "open" THEN c.work ELSE store

CanExecute(c) == c.status \in {"idle", "open"}

(* a variant: no BEGIN is sent, every statement commits on its own *)
BeginMissing(c, store) == c

(* BEGIN *)
Begin(c, store) ==
  IF c.status = "idle" THEN [status |-> "open", work |-> store] ELSE c

(* A statement fails: "conn" loses the connection, "error" is an error of *)
(* the statement, which aborts an open transaction.                       *)
AfterFailure(c, kind) ==
  IF kind = "conn" \/ c.status = "broken" THEN [status |-> "broken", work |-> EmptyTables]
  ELSE IF c.status \in {"open", "aborted"} THEN [status |-> "aborted", work |-> EmptyTables]
  ELSE c

(* a variant: the transaction's rows are dropped, as when the client is   *)
(* released without COMMIT                                                *)
CommittedRowsDropped(c, store) == store

(* COMMIT: the rows of an open transaction become the committed rows *)
CommittedRows(c, store) == IF c.status = "open" THEN c.work ELSE store

(* COMMIT or ROLLBACK ends the transaction *)
AfterEnd(c) == [status |-> "idle", work |-> EmptyTables]

(* unique_inventory_period *)
InventoryConflict(rows, locationId, inventory) ==
  \E r \in rows.inventory_results :
    r.location_id = locationId /\ r.month = inventory.month /\ r.year = inventory.year

(* INSERT ... ON CONFLICT DO NOTHING *)
InsertInventoryResult(rows, locationId, inventory) ==
  IF InventoryConflict(rows, locationId, inventory)
    THEN rows
    ELSE [rows EXCEPT !.inventory_results = @ \cup
            {[location_id |-> locationId, month |-> inventory.month,
              year |-> inventory.year, loss_amount |-> inventory.totalLoss]}]

(* SELECT id FROM employees WHERE poster_id = $1 AND location_id = $2 *)
SelectEmployee(rows, posterId, locationId) ==
  {e.id : e \in {x \in rows.employees : x.poster_id = posterId /\ x.location_id = locationId}}

(* employees.id SERIAL: an id no row of the table carries *)
NextEmployeeId(rows) ==
  IF rows.employees = {} THEN 1 ELSE 1 + Max({e.id : e \in rows.employees})

(* a variant: employees without its unique constraint *)
EmployeeConflictNever(rows, posterId, locationId) == FALSE

(* unique_employee_location *)
EmployeeConflict(rows, posterId, locationId) ==
  SelectEmployee(rows, posterId, locationId) # {}

InsertEmployee(rows, posterId, locationId) ==
  [rows EXCEPT !.employees = @ \cup
     {[id |-> NextEmployeeId(rows), poster_id |-> posterId, location_id |-> locationId]}]

(* a variant: salary_reports without its unique constraint *)
ReportConflictNever(rows, employeeId, period) == FALSE

(* unique_report_period *)
ReportConflict(rows, employeeId, period) ==
  \E r \in rows.salary_reports :
    /\ r.employee_id = employeeId
    /\ r.period_month = period.month
    /\ r.period_year = period.year

InsertSalaryReport(rows, locationId, employeeId, salaryData, emp) ==
  [rows EXCEPT !.salary_reports = @ \cup
     {[location_id |-> locationId,
       employee_id |-> employeeId,
       period_month |-> salaryData.period.month,
       period_year |-> salaryData.period.year,
       shifts_count |-> emp.shiftsCount,
       total_salary |-> emp.totalSalary]}]

(* A write of the client: into its open transaction, or, with no          *)
(* transaction open, straight into the committed rows (autocommit).        *)
ClientAfterWrite(c, rows) == IF c.status = "open" THEN [c EXCEPT !.work = rows] ELSE c
StoreAfterWrite(c, store, rows) == IF c.status = "open" THEN store ELSE rows

---------------------------------------------------------------------------
(* controllers/salaryController.js *)

RequestBodies ==
  {[locationId |-> 1, month |-> 1, year |-> 2024, shiftRate |-> 1, revenuePercent |-> 50],
   [locationId |-> 1, month |-> 2, year |-> 2024, shiftRate |-> 1, revenuePercent |-> 50],
   [locationId |-> 2, month |-> 1, year |-> 2024, shiftRate |-> 1, revenuePercent |-> 50],
   [month |-> 1, year |-> 2024, shiftRate |-> 1, revenuePercent |-> 50],
   [locationId |-> 1, month |-> 1, year |-> 2024, revenuePercent |-> 50],
   [locationId |-> 1, month |-> 0, year |-> 2024, shiftRate |-> 1, revenuePercent |-> 50],
   [locationId |-> 1, month |-> 13, year |-> 2024, shiftRate |-> 1, revenuePercent |-> 50],
   [locationId |-> 1, month |-> 1, year |-> 1999, shiftRate |-> 1, revenuePercent |-> 50],
   [locationId |-> 1, month |-> 1, year |-> 2024, shiftRate |-> -1, revenuePercent |-> 50],
   [locationId |-> 1, month |-> 1, year |-> 2024, shiftRate |-> 1, revenuePercent |-> 150],
   [locationId |-> 1, month |-> 13, year |-> 1999, shiftRate |-> -1, revenuePercent |-> 150]}

(* What the Poster API answers to one request *)
RequestEmployeeAnswers ==
  {RequestFailed,
   Ok(<<>>),
   Ok(<<[user_id |-> 1, id |-> 0]>>),
   Ok(<<[user_id |-> 1, id |-> 0], [user_id |-> 2, id |-> 0]>>),
   Ok(<<[user_id |-> 1, id |-> 0], [user_id |-> 1, id |-> 0]>>)}

RequestTransactionAnswers ==
  {RequestFailed,
   Ok(<<[user_id |-> 1, staff_id |-> 0, total |-> 2, date_close |-> <<"d1", " ", "t1">>]>>),
   Ok(<<[user_id |-> 1, staff_id |-> 0, total |-> 2, date_close |-> <<"d1", " ", "t1">>],
        [user_id |-> 2, staff_id |-> 0, total |-> 2, date_close |-> <<"d1", " ", "t1">>]>>)}

RequestRevisionAnswers == {RequestFailed, Ok(<<-4>>)}

NoParams == [none |-> TRUE]
NoRequest == [none |-> TRUE]
NoResponse == [status |-> 0]

(* calculateSalary, lines 25-30: the required parameters *)
MissingRequired(body) ==
  \/ FalsyNumber(body, "locationId")
  \/ FalsyNumber(body, "month")
  \/ FalsyNumber(body, "year")
  \/ ~Has(body, "shiftRate")
  \/ ~Has(body, "revenuePercent")

(* calculationParams, lines 57-66 *)
CalculationParams(body, location) ==
  [account |-> location.poster_account,
   accessToken |-> location.poster_access_token,
   month |-> body.month,
   year |-> body.year,
   inventoryMonth |-> IF Has(body, "inventoryMonth") /\ body.inventoryMonth # 0
                        THEN body.inventoryMonth ELSE body.month,
   inventoryYear |-> IF Has(body, "inventoryYear") /\ body.inventoryYear # 0
                       THEN body.inventoryYear ELSE body.year,
   shiftRate |-> body.shiftRate,
   revenuePercent |-> body.revenuePercent]

Respond(status, body) == [status |-> status, body |-> body]

ErrorBody(msg) == [success |-> FALSE, error |-> msg]

Init ==
  /\ pc = "idle"
  /\ params = NoParams
  /\ employeesRes = NoAnswer
  /\ transRes = NoAnswer
  /\ revisionsRes = NoAnswer
  /\ result = NoResult
  /\ req = NoRequest
  /\ io = <<>>
  /\ response = NoResponse
  /\ db = EmptyTables
  /\ client = NoClient
  /\ dbBefore = EmptyTables
  /\ saveIdx = 0
  /\ dbEmployeeId = 0
  /\ pool = NoneCheckedOut
  /\ sessions = NoSessions

(* A request arrives; lines 12-36: the required parameters are checked and *)
(* the location query is sent.                                             *)
Receive ==
  /\ pc \in {"idle", "responded"}
  /\ \E body \in RequestBodies :
       /\ req' = body
       /\ IF MissingRequired(body)
            THEN /\ response' = Respond(400, ErrorBody("Missing required parameters"))
                 /\ io' = <<>>
                 /\ pc' = "responded"
            ELSE /\ response' = NoResponse
                 /\ io' = <<"db: SELECT locations">>
                 /\ pc' = "lookup"
  /\ params' = NoParams
  /\ employeesRes' = NoAnswer
  /\ transRes' = NoAnswer
  /\ revisionsRes' = NoAnswer
  /\ result' = NoResult
  /\ dbBefore' = db
  /\ saveIdx' = 0
  /\ dbEmployeeId' = 0
  /\ pool' = [pool EXCEPT !.releases = 0]
  /\ UNCHANGED <<db, client, sessions>>

(* lines 33-48: the location query answers; the token check is sent *)
LookupLocation ==
  /\ pc = "lookup"
  /\ \E failed \in BOOLEAN :
       IF failed
         THEN /\ response' = Respond(500, ErrorBody("query failed"))
              /\ pc' = "responded"
              /\ io' = io
         ELSE IF LocationRows(req.locationId) = {}
           THEN /\ response' = Respond(404, ErrorBody("Location not found"))
                /\ pc' = "responded"
                /\ io' = io
           ELSE /\ response' = response
                /\ pc' = "token"
                /\ io' = Append(io, "poster: settings.getAllSettings")
  /\ UNCHANGED <<calcVars, req, db, client, dbBefore, saveIdx, dbEmployeeId,
                 pool, sessions>>

(* lines 48-78: validateToken answers; the parameters are validated and    *)
(* calculateSalaries sends its three requests.                             *)
ValidateToken ==
  /\ pc = "token"
  /\ \E isTokenValid \in BOOLEAN :
       LET location == CHOOSE l \in LocationRows(req.locationId) : TRUE
           calculationParams == CalculationParams(req, location)
           validation == validateCalculationParams(calculationParams)
       IN IF ~isTokenValid
            THEN /\ response' = Respond(401, ErrorBody("Invalid or expired Poster access token"))
                 /\ pc' = "responded"
                 /\ UNCHANGED <<params, io>>
            ELSE IF ~validation.isValid
              THEN /\ response' = Respond(400, [success |-> FALSE, errors |-> validation.errors])
                   /\ pc' = "responded"
                   /\ params' = calculationParams
                   /\ io' = io
              ELSE /\ response' = response
                   /\ pc' = "fetch"
                   /\ params' = calculationParams
                   /\ io' = io \o <<"poster: access.getEmployees",
                                    "poster: dash.getTransactions",
                                    "poster: storage.getInventoryRevisions">>
  /\ UNCHANGED <<employeesRes, transRes, revisionsRes, result,
                 req, db, client, dbBefore, saveIdx, dbEmployeeId, pool, sessions>>

(* lines 78-81 and salaryService.calculateSalaries: Promise.all settles,   *)
(* the report is computed, saveSalaryReport asks the pool for a client.    *)
Calculate ==
  /\ pc = "fetch"
  /\ employeesRes' \in RequestEmployeeAnswers
  /\ transRes' \in RequestTransactionAnswers
  /\ revisionsRes' \in RequestRevisionAnswers
  /\ result' = calculateSalaries(params,
                                 getEmployees(employeesRes'),
                                 getEmployeeRevenue(getTransactions(transRes')),
                                 getInventoryResults(params.inventoryMonth,
                                                     params.inventoryYear, revisionsRes'))
  /\ IF result'.ok
       THEN /\ pc' = "connect"
            /\ io' = Append(io, "db: pool.connect")
            /\ response' = response
       ELSE /\ pc' = "responded"
            /\ io' = io
            /\ response' = Respond(500, ErrorBody(result'.error))
  /\ UNCHANGED <<params, req, db, client, dbBefore, saveIdx, dbEmployeeId,
                 pool, sessions>>

---------------------------------------------------------------------------
(* saveSalaryReport(locationId, salaryData), lines 260-337 *)

SalaryData == result.value

(* The catch block: ROLLBACK is sent *)
ToCatch == /\ pc' = "rollback"
           /\ io' = Append(io, "db: ROLLBACK")

FailureKinds == {"error", "conn"}

(* line 261: pool.connect() answers; BEGIN is sent *)
Connect ==
  /\ pc = "connect"
  /\ \E failed \in BOOLEAN :
       IF failed
         THEN /\ response' = Respond(500, ErrorBody("connect failed"))
              /\ pc' = "responded"
              /\ UNCHANGED <<client, io, pool>>
         ELSE /\ pool.checkedOut < PoolMax
              /\ client' = [status |-> "idle", work |-> EmptyTables]
              /\ pool' = Acquire(pool)
              /\ pc' = "begin"
              /\ io' = Append(io, "db: BEGIN")
              /\ response' = response
  /\ UNCHANGED <<calcVars, req, db, dbBefore, saveIdx, dbEmployeeId, sessions>>

(* line 264: BEGIN answers; the inventory INSERT is sent *)
SaveBegin ==
  /\ pc = "begin"
  /\ \/ /\ CanExecute(client)
        /\ client' = Begin(client, db)
        /\ pc' = "insert_inventory"
        /\ io' = Append(io, "db: INSERT inventory_results")
     \/ \E kind \in FailureKinds :
          /\ client' = AfterFailure(client, kind)
          /\ ToCatch
  /\ UNCHANGED <<calcVars, req, response, db, dbBefore, saveIdx, dbEmployeeId,
                 pool, sessions>>

(* What follows the statements of one employee: the next employee's       *)
(* SELECT, or COMMIT.                                                      *)
AfterEmployee(idx) ==
  IF idx < Len(SalaryData.employees)
    THEN /\ saveIdx' = idx + 1
         /\ pc' = "select_employee"
         /\ io' = Append(io, "db: SELECT employees")
    ELSE /\ saveIdx' = idx
         /\ pc' = "commit"
         /\ io' = Append(io, "db: COMMIT")

(* lines 267-276: the inventory INSERT answers *)
SaveInventory ==
  /\ pc = "insert_inventory"
  /\ \/ /\ CanExecute(client)
        /\ LET rows == InsertInventoryResult(View(client, db), req.locationId,
                                             SalaryData.inventory)
           IN /\ client' = ClientAfterWrite(client, rows)
              /\ db' = StoreAfterWrite(client, db, rows)
        /\ AfterEmployee(0)
     \/ \E kind \in FailureKinds :
          /\ client' = AfterFailure(client, kind)
          /\ ToCatch
          /\ UNCHANGED <<db, saveIdx>>
  /\ UNCHANGED <<calcVars, req, response, dbBefore, dbEmployeeId, pool, sessions>>

(* lines 281-299: the employee SELECT answers *)
SaveSelectEmployee ==
  /\ pc = "select_employee"
  /\ \/ /\ CanExecute(client)
        /\ LET emp == SalaryData.employees[saveIdx]
               found == SelectEmployee(View(client, db), emp.employeeId, req.locationId)
           IN IF found = {}
                THEN /\ pc' = "insert_employee"
                     /\ io' = Append(io, "db: INSERT employees")
                     /\ dbEmployeeId' = dbEmployeeId
                ELSE /\ pc' = "insert_salary"
                     /\ io' = Append(io, "db: INSERT salary_reports")
                     /\ dbEmployeeId' = CHOOSE id \in found : TRUE
        /\ client' = client
     \/ \E kind \in FailureKinds :
          /\ client' = AfterFailure(client, kind)
          /\ ToCatch
          /\ dbEmployeeId' = dbEmployeeId
  /\ UNCHANGED <<calcVars, req, response, db, dbBefore, saveIdx, pool, sessions>>

(* lines 290-296: the employee INSERT answers *)
SaveInsertEmployee ==
  /\ pc = "insert_employee"
  /\ LET emp == SalaryData.employees[saveIdx]
         view == View(client, db)
     IN \/ /\ CanExecute(client)
           /\ ~EmployeeConflict(view, emp.employeeId, req.locationId)
           /\ LET rows == InsertEmployee(view, emp.employeeId, req.locationId)
              IN /\ client' = ClientAfterWrite(client, rows)
                 /\ db' = StoreAfterWrite(client, db, rows)
           /\ dbEmployeeId' = NextEmployeeId(view)
           /\ pc' = "insert_salary"
           /\ io' = Append(io, "db: INSERT salary_reports")
        \/ \E kind \in FailureKinds :
             /\ client' = AfterFailure(client, kind)
             /\ ToCatch
             /\ UNCHANGED <<db, dbEmployeeId>>
  /\ UNCHANGED <<calcVars, req, response, dbBefore, saveIdx, pool, sessions>>

(* lines 302-328: the salary_reports INSERT answers *)
SaveInsertSalary ==
  /\ pc = "insert_salary"
  /\ LET emp == SalaryData.employees[saveIdx]
         view == View(client, db)
     IN \/ /\ CanExecute(client)
           /\ ~ReportConflict(view, dbEmployeeId, SalaryData.period)
           /\ LET rows == InsertSalaryReport(view, req.locationId, dbEmployeeId,
                                             SalaryData, emp)
              IN /\ client' = ClientAfterWrite(client, rows)
                 /\ db' = StoreAfterWrite(client, db, rows)
           /\ AfterEmployee(saveIdx)
        \/ \E kind \in FailureKinds :
             /\ client' = AfterFailure(client, kind)
             /\ ToCatch
             /\ UNCHANGED <<db, saveIdx>>
  /\ UNCHANGED <<calcVars, req, response, dbBefore, dbEmployeeId, pool, sessions>>

(* lines 330, 335 and 83: COMMIT answers; the client is released and the   *)
(* report is sent.                                                         *)
SaveCommit ==
  /\ pc = "commit"
  /\ \/ /\ CanExecute(client)
        /\ db' = CommittedRows(client, db)
        /\ client' = NoClient
        /\ pool' = Finally(pool, "commit")
        /\ pc' = "responded"
        /\ io' = io
        /\ response' = Respond(200, SalaryData)
     \/ \E kind \in FailureKinds :
          /\ client' = AfterFailure(client, kind)
          /\ ToCatch
          /\ UNCHANGED <<db, response, pool>>
  /\ UNCHANGED <<calcVars, req, dbBefore, saveIdx, dbEmployeeId, sessions>>

(* lines 331-336 and 85-90: ROLLBACK answers, or fails on a lost           *)
(* connection; the client is released, the error is thrown on and          *)
(* calculateSalary answers 500.                                            *)
SaveRollback ==
  /\ pc = "rollback"
  /\ \/ /\ client.status # "broken"
        /\ response' = Respond(500, ErrorBody("statement failed"))
        /\ pool' = Finally(pool, "rollback")
     \/ /\ response' = Respond(500, ErrorBody("rollback failed"))
        /\ pool' = Finally(pool, "rollback failed")
  /\ client' = NoClient
  /\ pc' = "responded"
  /\ UNCHANGED <<calcVars, req, io, db, dbBefore, saveIdx, dbEmployeeId, sessions>>

Next ==
  \/ Receive
  \/ LookupLocation
  \/ ValidateToken
  \/ Calculate
  \/ Connect
  \/ SaveBegin
  \/ SaveInventory
  \/ SaveSelectEmployee
  \/ SaveInsertEmployee
  \/ SaveInsertSalary
  \/ SaveCommit
  \/ SaveRollback

Spec == Init /\ [][Next]_vars

---------------------------------------------------------------------------
(* The calculation service on its own: calculateSalaries called with       *)
(* validated parameters.                                                   *)

InitCalc ==
  /\ pc = "calc_start"
  /\ params \in ValidParams
  /\ employeesRes = NoAnswer
  /\ transRes = NoAnswer
  /\ revisionsRes = NoAnswer
  /\ result = NoResult
  /\ req = NoRequest
  /\ io = <<>>
  /\ response = NoResponse
  /\ db = EmptyTables
  /\ client = NoClient
  /\ dbBefore = EmptyTables
  /\ saveIdx = 0
  /\ dbEmployeeId = 0
  /\ pool = NoneCheckedOut
  /\ sessions = NoSessions

(* One call of calculateSalaries: Promise.all of the three fetches settles *)
(* and the report is computed, or the error is thrown.                     *)
CalcRun ==
  /\ pc = "calc_start"
  /\ employeesRes' \in EmployeeAnswers
  /\ transRes' \in TransactionAnswers
  /\ revisionsRes' \in RevisionAnswers
  /\ result' = calculateSalaries(params,
                                 getEmployees(employeesRes'),
                                 getEmployeeRevenue(getTransactions(transRes')),
                                 getInventoryResults(params.inventoryMonth,
                                                     params.inventoryYear, revisionsRes'))
  /\ pc' = "calc_done"
  /\ UNCHANGED <<params, handlerVars>>

NextCalc == CalcRun

SpecCalc == InitCalc /\ [][NextCalc]_vars

---------------------------------------------------------------------------
(* The Poster data shaping on its own: getEmployeeRevenue over what        *)
(* dash.getTransactions can answer, with fields missing.                   *)

RevenueRecords ==
  {[user_id |-> 1, total |-> 2, date_close |-> <<"d1", " ", "t1">>],
   [user_id |-> 1, total |-> 1, date_close |-> <<"d1", " ", "t2">>],
   [user_id |-> 1, total |-> 2, date_close |-> <<"d2", " ", "t1">>],
   [user_id |-> 2, total |-> 2, date |-> <<"d1">>],
   [user_id |-> 2, date_close |-> <<"d2", " ", "t1">>],
   [user_id |-> 2, total |-> 1, date_close |-> <<>>, date |-> <<"d2", " ", "t2">>],
   [staff_id |-> 3, total |-> 1, date_close |-> <<"d1", " ", "t1">>],
   [user_id |-> 0, staff_id |-> 1, total |-> 1, date_close |-> <<"d3", " ", "t1">>],
   [user_id |-> 0, staff_id |-> 0, total |-> 1, date_close |-> <<"d1", " ", "t1">>],
   [total |-> 2, date_close |-> <<"d3", " ", "t1">>],
   [total |-> 1],
   [user_id |-> 1, total |-> 1]}

RevenueAnswers ==
  {RequestFailed} \cup {Ok(l) : l \in SeqsUpTo(RevenueRecords, MaxTransactions)}

InitRevenue ==
  /\ pc = "revenue_start"
  /\ transRes \in RevenueAnswers
  /\ params = NoParams
  /\ employeesRes = NoAnswer
  /\ revisionsRes = NoAnswer
  /\ result = NoResult
  /\ req = NoRequest
  /\ io = <<>>
  /\ response = NoResponse
  /\ db = EmptyTables
  /\ client = NoClient
  /\ dbBefore = EmptyTables
  /\ saveIdx = 0
  /\ dbEmployeeId = 0
  /\ pool = NoneCheckedOut
  /\ sessions = NoSessions

(* One call of getEmployeeRevenue *)
RevenueRun ==
  /\ pc = "revenue_start"
  /\ result' = getEmployeeRevenue(getTransactions(transRes))
  /\ pc' = "revenue_done"
  /\ UNCHANGED <<params, employeesRes, transRes, revisionsRes, handlerVars>>

NextRevenue == RevenueRun

SpecRevenue == InitRevenue /\ [][NextRevenue]_vars

---------------------------------------------------------------------------
(* validateCalculationParams on its own, over parameter objects with       *)
(* fields missing, empty, out of range or NaN.                             *)

Undefined == [kind |-> "undefined"]
NaN == [kind |-> "NaN"]
Value(v) == [kind |-> "value", v |-> v]

ParamFields == {"account", "accessToken", "month", "year", "shiftRate", "revenuePercent"}

ParamChoices ==
  [account        : {Undefined, Value(""), Value("acc")},
   accessToken    : {Undefined, Value("tok")},
   month          : {Undefined, NaN, Value(0), Value(1), Value(12), Value(13)},
   year           : {NaN, Value(1999), Value(2000)},
   shiftRate      : {Undefined, NaN, Value(-1), Value(0)},
   revenuePercent : {Undefined, NaN, Value(-1), Value(0), Value(100), Value(150)}]

(* The parameter object of a choice: undefined fields are absent *)
ParamsOf(c) ==
  [f \in {g \in ParamFields : c[g] # Undefined} \cup {"nan"} |->
     IF f = "nan" THEN {g \in ParamFields : c[g] = NaN}
     ELSE IF c[f] = NaN THEN 0
     ELSE c[f].v]

ValidateInputs == {ParamsOf(c) : c \in ParamChoices}

InitValidate ==
  /\ pc = "validate_start"
  /\ params \in ValidateInputs
  /\ employeesRes = NoAnswer
  /\ transRes = NoAnswer
  /\ revisionsRes = NoAnswer
  /\ result = NoResult
  /\ req = NoRequest
  /\ io = <<>>
  /\ response = NoResponse
  /\ db = EmptyTables
  /\ client = NoClient
  /\ dbBefore = EmptyTables
  /\ saveIdx = 0
  /\ dbEmployeeId = 0
  /\ pool = NoneCheckedOut
  /\ sessions = NoSessions

(* One call of validateCalculationParams *)
ValidateRun ==
  /\ pc = "validate_start"
  /\ result' = Ok(validateCalculationParams(params))
  /\ pc' = "validate_done"
  /\ UNCHANGED <<params, employeesRes, transRes, revisionsRes, handlerVars>>

NextValidate == ValidateRun

SpecValidate == InitValidate /\ [][NextValidate]_vars

---------------------------------------------------------------------------
(* The transaction date range calculateSalaries asks Poster for *)

Months == 1..12
Years == {2000, 2001, 2023, 2024, 2096, 2100, 2200, 2399, 2400, 9999}

DateParams ==
  {[account |-> "acc", accessToken |-> "tok",
    month |-> m, year |-> y, inventoryMonth |-> m, inventoryYear |-> y,
    shiftRate |-> 0, revenuePercent |-> 0] : m \in Months, y \in Years}

InitDates ==
  /\ pc = "dates_start"
  /\ params \in DateParams
  /\ employeesRes = NoAnswer
  /\ transRes = NoAnswer
  /\ revisionsRes = NoAnswer
  /\ result = NoResult
  /\ req = NoRequest
  /\ io = <<>>
  /\ response = NoResponse
  /\ db = EmptyTables
  /\ client = NoClient
  /\ dbBefore = EmptyTables
  /\ saveIdx = 0
  /\ dbEmployeeId = 0
  /\ pool = NoneCheckedOut
  /\ sessions = NoSessions

(* lines 32-34 of calculateSalaries *)
DatesRun ==
  /\ pc = "dates_start"
  /\ result' = Ok([dateFrom |-> DateFrom(params.year, params.month),
                   dateTo |-> DateTo(params.year, params.month)])
  /\ pc' = "dates_done"
  /\ UNCHANGED <<params, employeesRes, transRes, revisionsRes, handlerVars>>

NextDates == DatesRun

SpecDates == InitDates /\ [][NextDates]_vars

---------------------------------------------------------------------------
(* Two saveSalaryReport calls at once, each on its own pool client, for    *)
(* the same location and salary period.  PostgreSQL at READ COMMITTED: a   *)
(* statement sees the committed rows and the rows of its own transaction;  *)
(* an INSERT whose unique key is held by a row of another transaction that *)
(* has not ended waits for that transaction, and then fails (or, with ON   *)
(* CONFLICT DO NOTHING, does nothing) if it committed; two transactions    *)
(* waiting for each other are a deadlock, which the server ends by failing *)
(* one of the two statements.                                              *)

Merge(a, b) ==
  [inventory_results |-> a.inventory_results \cup b.inventory_results,
   employees |-> a.employees \cup b.employees,
   salary_reports |-> a.salary_reports \cup b.salary_reports]

(* The reports the two calls save: what calculateSalaries returns for the  *)
(* salary period 1/2024, the inventory period being that month or the one  *)
(* before.                                                                 *)
ConcurrentReports ==
  LET periods == {[inventoryMonth |-> 1, inventoryYear |-> 2024],
                  [inventoryMonth |-> 12, inventoryYear |-> 2023]}
      lists == {<<[user_id |-> 1, id |-> 0]>>,
                <<[user_id |-> 2, id |-> 0]>>,
                <<[user_id |-> 1, id |-> 0], [user_id |-> 2, id |-> 0]>>,
                <<[user_id |-> 2, id |-> 0], [user_id |-> 1, id |-> 0]>>}
      transactions ==
        <<[user_id |-> 1, staff_id |-> 0, total |-> 2, date_close |-> <<"d1", " ", "t1">>],
          [user_id |-> 2, staff_id |-> 0, total |-> 2, date_close |-> <<"d1", " ", "t1">>]>>
      revisions == {<<>>, <<-4>>}
  IN {calculateSalaries([account |-> "acc", accessToken |-> "tok",
                         month |-> 1, year |-> 2024,
                         inventoryMonth |-> p.inventoryMonth,
                         inventoryYear |-> p.inventoryYear,
                         shiftRate |-> 1, revenuePercent |-> 50],
                        getEmployees(Ok(e)),
                        getEmployeeRevenue(getTransactions(Ok(transactions))),
                        getInventoryResults(p.inventoryMonth, p.inventoryYear, Ok(rv))).value :
        p \in periods, e \in lists, rv \in revisions}

(* What is stored when the two calls start: nothing, or the employees and  *)
(* the inventory results of both inventory periods from earlier saves      *)
StartingStores ==
  {[inventory_results |->
      {[location_id |-> l.id, month |-> r.inventory.month, year |-> r.inventory.year,
        loss_amount |-> 0] : l \in Locations, r \in ConcurrentReports},
    employees |-> known,
    salary_reports |-> {}] :
     known \in {{}, {[id |-> u, poster_id |-> u, location_id |-> l.id] :
                       u \in {1, 2}, l \in Locations}}}
  \cup {EmptyTables}

(* Each call has its client and is about to send BEGIN *)
InitConcurrent ==
  /\ pc = "concurrent"
  /\ db \in StartingStores
  /\ dbBefore = db
  /\ \E r1, r2 \in ConcurrentReports, l \in Locations :
       LET NewSession(report) ==
             [pc |-> "begin", tx |-> "idle", writes |-> EmptyTables, idx |-> 0,
              dbEmployeeId |-> 0, locationId |-> l.id, salaryData |-> report,
              outcome |-> "running"]
       IN sessions = <<NewSession(r1), NewSession(r2)>>
  /\ pool = Acquire(Acquire(NoneCheckedOut))
  /\ params = NoParams
  /\ employeesRes = NoAnswer
  /\ transRes = NoAnswer
  /\ revisionsRes = NoAnswer
  /\ result = NoResult
  /\ req = NoRequest
  /\ io = <<>>
  /\ response = NoResponse
  /\ client = NoClient
  /\ saveIdx = 0
  /\ dbEmployeeId = 0

(* The rows a statement of call s sees *)
Visible(s) == IF sessions[s].tx = "open" THEN Merge(db, sessions[s].writes) ELSE db

(* employee = salaryData.employees[idx] of the loop at line 279 *)
CurrentLine(s) == sessions[s].salaryData.employees[sessions[s].idx]

(* The unique key the pending INSERT of call s needs is held by `rows` *)
KeyHeld(s, rows) ==
  LET me == sessions[s]
  IN \/ /\ me.pc = "insert_inventory"
        /\ InventoryConflict(rows, me.locationId, me.salaryData.inventory)
     \/ /\ me.pc = "insert_employee"
        /\ EmployeeConflict(rows, CurrentLine(s).employeeId, me.locationId)
     \/ /\ me.pc = "insert_salary"
        /\ ReportConflict(rows, me.dbEmployeeId, me.salaryData.period)

(* The pending INSERT of call s waits for another call's transaction, open *)
(* or aborted and not yet rolled back                                      *)
Waiting(s) ==
  /\ sessions[s].tx = "open"
  /\ ~KeyHeld(s, Visible(s))
  /\ \E o \in DOMAIN sessions \ {s} :
       /\ sessions[o].tx \in {"open", "aborted"}
       /\ KeyHeld(s, sessions[o].writes)

(* A statement of a call fails: the transaction is aborted, its rows stay  *)
(* uncommitted until ROLLBACK, and the catch block sends ROLLBACK.         *)
Failed(me, why) ==
  [me EXCEPT !.tx = IF @ = "open" THEN "aborted" ELSE @,
             !.pc = "rollback",
             !.outcome = why]

(* The next statement after those of line idx: the next line's SELECT, or  *)
(* COMMIT                                                                  *)
Advanced(me) ==
  IF me.idx < Len(me.salaryData.employees)
    THEN [me EXCEPT !.idx = @ + 1, !.pc = "select_employee"]
    ELSE [me EXCEPT !.pc = "commit"]

ConcurrentUnchanged ==
  UNCHANGED <<pc, calcVars, req, io, response, client, dbBefore, saveIdx, dbEmployeeId>>

(* line 264 *)
SessBegin(s) ==
  /\ sessions[s].pc = "begin"
  /\ \/ sessions' = [sessions EXCEPT ![s].tx = "open", ![s].pc = "insert_inventory"]
     \/ sessions' = [sessions EXCEPT ![s] = Failed(@, "statement failed")]
  /\ UNCHANGED <<db, pool>>
  /\ ConcurrentUnchanged

(* lines 267-276 *)
SessInventory(s) ==
  /\ sessions[s].pc = "insert_inventory"
  /\ \/ /\ ~Waiting(s)
        /\ sessions' =
             [sessions EXCEPT ![s] =
                Advanced([@ EXCEPT !.writes =
                            IF KeyHeld(s, Visible(s)) THEN @
                            ELSE InsertInventoryResult(@, sessions[s].locationId,
                                                       sessions[s].salaryData.inventory)])]
     \/ sessions' = [sessions EXCEPT ![s] = Failed(@, "statement failed")]
  /\ UNCHANGED <<db, pool>>
  /\ ConcurrentUnchanged

(* lines 281-299 *)
SessSelectEmployee(s) ==
  /\ sessions[s].pc = "select_employee"
  /\ \/ LET found == SelectEmployee(Visible(s), CurrentLine(s).employeeId,
                                   sessions[s].locationId)
        IN sessions' =
             [sessions EXCEPT ![s] =
                IF found = {} THEN [@ EXCEPT !.pc = "insert_employee"]
                ELSE [@ EXCEPT !.pc = "insert_salary",
                               !.dbEmployeeId = CHOOSE id \in found : TRUE]]
     \/ sessions' = [sessions EXCEPT ![s] = Failed(@, "statement failed")]
  /\ UNCHANGED <<db, pool>>
  /\ ConcurrentUnchanged

(* lines 290-296; the id comes from the table's sequence, which no         *)
(* transaction shares with another                                         *)
SessInsertEmployee(s) ==
  /\ sessions[s].pc = "insert_employee"
  /\ \/ /\ ~Waiting(s)
        /\ LET id == NextEmployeeId(Merge(db, Merge(sessions[1].writes, sessions[2].writes)))
           IN sessions' =
                [sessions EXCEPT ![s] =
                   IF KeyHeld(s, Visible(s)) THEN Failed(@, "unique violation")
                   ELSE [@ EXCEPT !.writes.employees =
                                     @ \cup {[id |-> id,
                                              poster_id |-> CurrentLine(s).employeeId,
                                              location_id |-> sessions[s].locationId]},
                                  !.dbEmployeeId = id,
                                  !.pc = "insert_salary"]]
     \/ sessions' = [sessions EXCEPT ![s] = Failed(@, "statement failed")]
  /\ UNCHANGED <<db, pool>>
  /\ ConcurrentUnchanged

(* lines 302-328 *)
SessInsertSalary(s) ==
  /\ sessions[s].pc = "insert_salary"
  /\ \/ /\ ~Waiting(s)
        /\ sessions' =
             [sessions EXCEPT ![s] =
                IF KeyHeld(s, Visible(s)) THEN Failed(@, "unique violation")
                ELSE Advanced([@ EXCEPT !.writes =
                                 InsertSalaryReport(@, sessions[s].locationId,
                                                    sessions[s].dbEmployeeId,
                                                    sessions[s].salaryData,
                                                    CurrentLine(s))])]
     \/ sessions' = [sessions EXCEPT ![s] = Failed(@, "statement failed")]
  /\ UNCHANGED <<db, pool>>
  /\ ConcurrentUnchanged

(* Two calls wait for each other: the server fails the INSERT of one *)
SessDeadlock(s) ==
  /\ Waiting(s)
  /\ \E o \in DOMAIN sessions \ {s} : Waiting(o)
  /\ sessions' = [sessions EXCEPT ![s] = Failed(@, "deadlock detected")]
  /\ UNCHANGED <<db, pool>>
  /\ ConcurrentUnchanged

(* lines 330 and 335 *)
SessCommit(s) ==
  /\ sessions[s].pc = "commit"
  /\ \/ /\ db' = Merge(db, sessions[s].writes)
        /\ sessions' = [sessions EXCEPT ![s].tx = "idle", ![s].writes = EmptyTables,
                                        ![s].pc = "done", ![s].outcome = "committed"]
        /\ pool' = Finally(pool, "commit")
     \/ /\ sessions' = [sessions EXCEPT ![s] = Failed(@, "statement failed")]
        /\ UNCHANGED <<db, pool>>
  /\ ConcurrentUnchanged

(* lines 331-336 *)
SessRollback(s) ==
  /\ sessions[s].pc = "rollback"
  /\ sessions' = [sessions EXCEPT ![s].tx = "idle", ![s].writes = EmptyTables,
                                  ![s].pc = "done"]
  /\ pool' = Finally(pool, "rollback")
  /\ UNCHANGED db
  /\ ConcurrentUnchanged

NextConcurrent ==
  \E s \in DOMAIN sessions :
    \/ SessBegin(s)
    \/ SessInventory(s)
    \/ SessSelectEmployee(s)
    \/ SessInsertEmployee(s)
    \/ SessInsertSalary(s)
    \/ SessDeadlock(s)
    \/ SessCommit(s)
    \/ SessRollback(s)

SpecConcurrent == InitConcurrent /\ [][NextConcurrent]_vars

---------------------------------------------------------------------------
(* Properties of the calculation, checked under SpecCalc *)

CalcDone == pc = "calc_done"

Employees == getEmployees(employeesRes)
RevenueData == getEmployeeRevenue(getTransactions(transRes))
InventoryResults ==
  getInventoryResults(params.inventoryMonth, params.inventoryYear, revisionsRes)

(* The lines calculateSalaries computes before the shifts > 0 filter, and *)
(* their unrounded figures                                                *)
ComputedLines ==
  SalaryResults(Employees.value, RevenueData.value, InventoryResults.value, params)

UnroundedLines ==
  LET employees == Employees.value
      revenueData == RevenueData.value
      inventoryResults == InventoryResults.value
  IN [i \in DOMAIN employees |->
        Unrounded(employees[i], revenueData, inventoryResults, params)]

ReportLines == result.value.employees

Range(s) == {s[i] : i \in DOMAIN s}

(* C3: when the inventory-revisions fetch fails the calculation still      *)
(* completes, its report has inventory.totalLoss = 0 and revisionsCount = 0,*)
(* every line has inventoryDeduction = 0, and the lines carry the          *)
(* baseSalary and revenueBonus they carry when the inventory fetch         *)
(* succeeds, whatever it then answers.                                     *)
BaseAndBonus(lines) ==
  {[employeeId |-> l.employeeId, shiftsCount |-> l.shiftsCount,
    baseSalary |-> l.baseSalary, revenueBonus |-> l.revenueBonus] : l \in Range(lines)}

C3_InventoryFailureFallsBack ==
  (CalcDone /\ employeesRes.ok /\ transRes.ok /\ ~revisionsRes.ok) =>
    /\ result.ok
    /\ result.value.inventory.totalLoss = 0
    /\ result.value.inventory.revisionsCount = 0
    /\ \A l \in Range(ReportLines) : l.inventoryDeduction = 0
    /\ LET employees == Employees
           revenueData == RevenueData
           failed == BaseAndBonus(ReportLines)
       IN \A answer \in RevisionLists :
            LET other == calculateSalaries(params, employees, revenueData,
                           getInventoryResults(params.inventoryMonth,
                                               params.inventoryYear, Ok(answer)))
            IN /\ other.ok
               /\ Len(other.value.employees) = Len(ReportLines)
               /\ BaseAndBonus(other.value.employees) = failed

C3_Witness ==
  /\ CalcDone /\ employeesRes.ok /\ transRes.ok /\ ~revisionsRes.ok
  /\ result.ok
  /\ \E l \in Range(ReportLines) : l.revenue > 0 /\ l.revenueBonus > 0 /\ l.baseSalary > 0

(* C5: every line of the returned report has shiftsCount > 0, and an       *)
(* employee of the list whose shiftsCount is 0 has no line in the report.  *)
C5_OnlyWorkingEmployees ==
  (CalcDone /\ result.ok) =>
    LET revenueData == RevenueData.value
        computed == ComputedLines
        reported == Range(ReportLines)
    IN /\ \A l \in reported : l.shiftsCount > 0
       /\ \A e \in Range(Employees.value) :
            MapLookup(revenueData, EmployeeIdOf(e)).shiftsCount = 0 =>
              \A l \in reported : l.employeeId # EmployeeIdOf(e)
       /\ Len(ReportLines) =
            Cardinality({i \in DOMAIN computed : computed[i].shiftsCount > 0})

C5_Witness ==
  /\ CalcDone /\ result.ok
  /\ Len(ReportLines) > 0
  /\ \E e \in Range(Employees.value) :
       MapLookup(RevenueData.value, EmployeeIdOf(e)).shiftsCount = 0

(* C6: if totalLoss >= 0 or the total revenue is 0, inventoryDeduction is  *)
(* exactly 0 on every line calculateSalaries computes (kept or filtered).  *)
C6_NoShortageNoDeduction ==
  (CalcDone /\ result.ok
     /\ (InventoryResults.value.totalLoss >= 0 \/ TotalRevenue(RevenueData.value) = 0)) =>
    /\ \A l \in Range(ReportLines) : l.inventoryDeduction = 0
    /\ \A l \in Range(ComputedLines) : l.inventoryDeduction = 0

C6_Witness ==
  /\ CalcDone /\ result.ok
  /\ InventoryResults.value.totalLoss > 0
  /\ TotalRevenue(RevenueData.value) > 0
  /\ \E l \in Range(ReportLines) : l.revenue > 0

(* C7 as stated: when totalLoss < 0 and totalRevenue > 0, the              *)
(* inventoryDeduction of all computed lines (before the filter) sums to    *)
(* |totalLoss| within half a cent per line, for every employee list and    *)
(* every revenue aggregate list.                                           *)
ShortageToShare ==
  /\ CalcDone /\ result.ok
  /\ InventoryResults.value.totalLoss < 0
  /\ TotalRevenue(RevenueData.value) > 0

(* |sum - |totalLoss| / 2| <= lines / 2, the sum in cents and totalLoss in *)
(* half-cents                                                              *)
DeductionSumMatchesLoss ==
  LET computed == ComputedLines
      sum == SumSeq([i \in DOMAIN computed |-> computed[i].inventoryDeduction])
  IN Abs(2 * sum - Abs(InventoryResults.value.totalLoss)) <= Len(computed)

C7_Original_DeductionsSumToLoss == ShortageToShare => DeductionSumMatchesLoss

(* C7 amended: the same, for the employee lists that name every employee   *)
(* with a revenue aggregate exactly once.                                  *)
EveryEarnerListedOnce ==
  LET employees == Employees.value
      revenueData == RevenueData.value
  IN \A i \in DOMAIN revenueData :
       Cardinality({j \in DOMAIN employees :
                      EmployeeIdOf(employees[j]) = revenueData[i].employeeId}) = 1

C7_DeductionsSumToLossWhenListedOnce ==
  (ShortageToShare /\ EveryEarnerListedOnce) => DeductionSumMatchesLoss

C7_Witness ==
  /\ ShortageToShare /\ EveryEarnerListedOnce
  /\ Len(RevenueData.value) = 2
  /\ \A l \in Range(ComputedLines) : l.inventoryDeduction > 0
  /\ InventoryResults.value.totalLoss = -5

(* C8 as stated: on every line of the report the rounded fields satisfy    *)
(* totalSalary = baseSalary + revenueBonus - inventoryDeduction exactly.   *)
SumOfParts(l) == l.baseSalary + l.revenueBonus - l.inventoryDeduction

RoundHalfAwayFromZero(q) ==
  IF q.n >= 0 THEN (2 * q.n + q.d) \div (2 * q.d)
  ELSE -((2 * (-q.n) + q.d) \div (2 * q.d))

C9_FieldsRoundHalfAwayFromZero ==
  (CalcDone /\ result.ok) =>
    LET computed == ComputedLines
        unrounded == UnroundedLines
    IN \A i \in DOMAIN computed :
         /\ computed[i].revenue = RoundHalfAwayFromZero(unrounded[i].revenue)
         /\ computed[i].baseSalary = RoundHalfAwayFromZero(unrounded[i].baseSalary)
         /\ computed[i].revenueBonus = RoundHalfAwayFromZero(unrounded[i].revenueBonus)
         /\ computed[i].inventoryDeduction =
              RoundHalfAwayFromZero(unrounded[i].inventoryDeduction)
         /\ computed[i].totalSalary = RoundHalfAwayFromZero(unrounded[i].totalSalary)

(* C10: the report's employees are in descending order of totalSalary, and *)
(* lines of equal totalSalary keep the order they had in the employee list:*)
(* the report's lines of each totalSalary are, in order, the kept lines of *)
(* that totalSalary.                                                       *)
WithTotal(lines, total) ==
  LET HasTotal(l) == l.totalSalary = total IN SelectSeq(lines, HasTotal)

KeptLines == WorkingEmployees(ComputedLines)

C10_SortedDescendingStable ==
  (CalcDone /\ result.ok) =>
    LET kept == KeptLines
        reported == ReportLines
    IN /\ \A i, j \in DOMAIN reported :
            i < j => reported[i].totalSalary >= reported[j].totalSalary
       /\ Len(reported) = Len(kept)
       /\ \A l \in Range(kept) :
            WithTotal(reported, l.totalSalary) = WithTotal(kept, l.totalSalary)

C10_Witness ==
  /\ CalcDone /\ result.ok
  /\ Len(ReportLines) = 2
  /\ ReportLines[1].totalSalary = ReportLines[2].totalSalary
  /\ ReportLines[1].employeeId > ReportLines[2].employeeId

(* C14 as stated: for every employee list, also one that repeats an        *)
(* employee id, the revenue of the report's lines sums to at most the      *)
(* totalRevenue used for the inventory shares (each line's revenue being   *)
(* rounded, half a cent per line is allowed for).                          *)
(* 2 * sum <= totalRevenue + lines: the sum in cents, totalRevenue in      *)
(* half-cents                                                              *)
IncludedRevenueWithinTotal ==
  LET reported == ReportLines
      sum == SumSeq([i \in DOMAIN reported |-> reported[i].revenue])
  IN 2 * sum <= TotalRevenue(RevenueData.value) + Len(reported)

C14_Original_IncludedRevenueAtMostTotal ==
  (CalcDone /\ result.ok) => IncludedRevenueWithinTotal

(* C14 amended: the same for the employee lists that name no employee id   *)
(* twice.                                                                  *)
NoEmployeeListedTwice ==
  LET employees == Employees.value
  IN \A i, j \in DOMAIN employees :
       i # j => EmployeeIdOf(employees[i]) # EmployeeIdOf(employees[j])

C14_IncludedRevenueAtMostTotalWithoutRepeats ==
  (CalcDone /\ result.ok /\ NoEmployeeListedTwice) => IncludedRevenueWithinTotal

(* two listed earners *)
C14_Witness ==
  /\ CalcDone /\ result.ok /\ NoEmployeeListedTwice
  /\ Len(ReportLines) = 2
  /\ \A l \in Range(ReportLines) : l.revenue > 0

---------------------------------------------------------------------------
(* Properties of the request handler and its transaction, checked under   *)
(* Spec                                                                    *)

Issued(op) == \E i \in DOMAIN io : io[i] = op

Count(op) == Cardinality({i \in DOMAIN io : io[i] = op})

Responded == pc = "responded"

(* Every row the report calls for is among `rows` *)
AllStored(rows) ==
  /\ \E r \in rows.inventory_results :
       /\ r.location_id = req.locationId
       /\ r.month = SalaryData.inventory.month
       /\ r.year = SalaryData.inventory.year
  /\ \A i \in DOMAIN SalaryData.employees :
       \E e \in rows.employees, r \in rows.salary_reports :
         /\ e.poster_id = SalaryData.employees[i].employeeId
         /\ e.location_id = req.locationId
         /\ r.employee_id = e.id
         /\ r.location_id = req.locationId
         /\ r.period_month = SalaryData.period.month
         /\ r.period_year = SalaryData.period.year
         /\ r.shifts_count = SalaryData.employees[i].shiftsCount
         /\ r.total_salary = SalaryData.employees[i].totalSalary

(* C1: saveSalaryReport is all-or-nothing: once the call has ended, at     *)
(* whichever statement it failed, either the inventory row and a salary    *)
(* row for every line of the report are stored, or the stored rows are     *)
(* those of before the call (no inventory, employee or salary row of the   *)
(* call remains).                                                          *)
C1_SaveAllOrNothing ==
  (Responded /\ Issued("db: pool.connect")) =>
    \/ response.status = 200 /\ AllStored(db)
    \/ response.status = 500 /\ db = dbBefore

C1_Witness ==
  /\ Responded
  /\ result.ok
  /\ response.status = 500
  /\ Len(SalaryData.employees) = 2
  /\ Count("db: INSERT salary_reports") = 2
  /\ Count("db: INSERT employees") = 2
  /\ db = dbBefore
  /\ db.salary_reports = {}

(* C2: if the employee-list fetch or the transaction fetch fails,          *)
(* calculateSalaries produces no report but throws its one error, and the  *)
(* request that called it persists nothing.                                *)
C2_FetchFailureNoReportNothingSaved ==
  (Responded /\ Issued("poster: access.getEmployees")
     /\ (employeesRes = RequestFailed \/ transRes = RequestFailed)) =>
    /\ result = CalculationError
    /\ response = Respond(500, ErrorBody(CalculationError.error))
    /\ ~Issued("db: pool.connect")
    /\ db = dbBefore

C2_Witness ==
  /\ Responded
  /\ employeesRes = RequestFailed /\ transRes.ok /\ revisionsRes.ok
  /\ response.status = 500
  /\ db = dbBefore
  /\ db.salary_reports # {}

(* C4 as stated: the validation errors of a calculateSalary request are    *)
(* returned before any I/O: no database query and no Poster API request    *)
(* precedes the rejection.                                                 *)
ValidationRejected ==
  Responded /\ response.status = 400 /\ Has(response.body, "errors")

ViolatesRule(body) ==
  \/ MissingRequired(body)
  \/ body.month < 1 \/ body.month > 12
  \/ body.year < 2000
  \/ body.shiftRate < 0
  \/ body.revenuePercent < 0 \/ body.revenuePercent > 100

LookupAndTokenCheck == <<"db: SELECT locations", "poster: settings.getAllSettings">>

C15_OneRowPerPeriod ==
  /\ \A r1, r2 \in db.salary_reports :
       (/\ r1.employee_id = r2.employee_id
        /\ r1.period_month = r2.period_month
        /\ r1.period_year = r2.period_year) => r1 = r2
  /\ \A i1, i2 \in db.inventory_results :
       (/\ i1.location_id = i2.location_id
        /\ i1.month = i2.month
        /\ i1.year = i2.year) => i1 = i2

(* Two periods are stored, and a further save for a stored period, with    *)
(* other figures for a stored employee, has been turned down.              *)
C15_Witness ==
  /\ Responded /\ result.ok
  /\ response.status = 500
  /\ Issued("db: INSERT salary_reports")
  /\ db = dbBefore
  /\ Cardinality(db.inventory_results) = 2
  /\ Cardinality({r.period_month : r \in db.salary_reports}) = 2
  /\ \E r \in db.salary_reports, e \in db.employees, l \in Range(SalaryData.employees) :
       /\ e.id = r.employee_id
       /\ e.poster_id = l.employeeId
       /\ r.period_month = SalaryData.period.month
       /\ r.period_year = SalaryData.period.year
       /\ r.total_salary # l.totalSalary

(* C18: a calculateSalary request sends the computed report only after     *)
(* saveSalaryReport has committed; if the save fails the request answers   *)
(* 500 without the report and the store is as it was before the request.   *)
Saving ==
  pc \in {"connect", "begin", "insert_inventory", "select_employee", "insert_employee",
          "insert_salary", "commit", "rollback"}

C18_ReportSentOnlyAfterCommit ==
  /\ Saving => response = NoResponse
  /\ (Responded /\ response.status = 200) =>
       /\ result.ok
       /\ response.body = SalaryData
       /\ io[Len(io)] = "db: COMMIT"
       /\ AllStored(db)
  /\ (Responded /\ Issued("db: pool.connect") /\ response.status # 200) =>
       /\ response.status = 500
       /\ DOMAIN response.body = {"success", "error"}
       /\ response.body.success = FALSE
       /\ db = dbBefore

(* COMMIT itself fails: 500, no report, nothing stored *)
C18_Witness ==
  /\ Responded /\ result.ok
  /\ Count("db: COMMIT") = 1
  /\ Len(SalaryData.employees) = 2
  /\ response.status = 500
  /\ db = dbBefore

(* C20: every client saveSalaryReport acquires from the pool is released   *)
(* exactly once before the call ends, on the commit path, on the rollback  *)
(* path and when ROLLBACK itself fails; no client stays checked out after  *)
(* any sequence of save calls.                                             *)
C20_ClientReleasedExactlyOnce ==
  /\ Saving /\ pc # "connect" => pool.checkedOut = 1 /\ pool.releases = 0
  /\ ~Saving \/ pc = "connect" => pool.checkedOut = 0
  /\ Responded =>
       pool.releases = (IF Issued("db: BEGIN") THEN 1 ELSE 0)

(* a save whose ROLLBACK failed, after an earlier save that committed *)
C20_Witness ==
  /\ Responded
  /\ Issued("db: ROLLBACK")
  /\ response = Respond(500, ErrorBody("rollback failed"))
  /\ dbBefore.salary_reports # {}
  /\ pool = [checkedOut |-> 0, releases |-> 1]

---------------------------------------------------------------------------
(* Properties of getEmployeeRevenue, checked under SpecRevenue *)

RevenueDone == pc = "revenue_done"

Transactions == transRes.value

(* The employee a sale names: its user_id, or else its staff_id; 0: none *)
NamedEmployee(t) ==
  LET user == IF "user_id" \in DOMAIN t THEN t.user_id ELSE 0
      staff == IF "staff_id" \in DOMAIN t THEN t.staff_id ELSE 0
  IN IF user # 0 THEN user ELSE staff

TransactionsOf(transactions, employeeId) ==
  {i \in DOMAIN transactions : NamedEmployee(transactions[i]) = employeeId}

(* The calendar date of a sale: the first part of its timestamp *)
CalendarDate(t) ==
  LET stamp == IF "date_close" \in DOMAIN t /\ t.date_close # <<>>
                 THEN t.date_close ELSE t.date
  IN stamp[1]

(* C11: the shiftsCount getEmployeeRevenue returns for an employee is the  *)
(* number of distinct calendar dates among that employee's transactions;   *)
(* two transactions of one employee on one date at different times count   *)
(* as one shift.                                                           *)
C11_ShiftsAreDistinctDates ==
  (RevenueDone /\ result.ok) =>
    LET transactions == Transactions
        aggregates == result.value
    IN \A k \in DOMAIN aggregates :
         aggregates[k].shiftsCount =
           Cardinality({CalendarDate(transactions[i]) :
                          i \in TransactionsOf(transactions, aggregates[k].employeeId)})

(* two sales of employee 1 on date d1, at t1 and at t2: one shift *)
C11_Witness ==
  /\ RevenueDone /\ result.ok
  /\ Len(Transactions) = 2
  /\ NamedEmployee(Transactions[1]) = 1
  /\ NamedEmployee(Transactions[2]) = 1
  /\ Transactions[1].date_close = <<"d1", " ", "t1">>
  /\ Transactions[2].date_close = <<"d1", " ", "t2">>
  /\ Len(result.value) = 1
  /\ result.value[1].shiftsCount = 1

(* C17: getEmployeeRevenue returns exactly one aggregate per distinct      *)
(* employee identifier seen in the transactions, its revenue the sum of    *)
(* that employee's totals; a transaction without an identifier is skipped: *)
(* it changes no aggregate and raises no error.                            *)
Named(transactions) ==
  LET Names(t) == NamedEmployee(t) # 0 IN SelectSeq(transactions, Names)

TotalOf(t) == IF "total" \in DOMAIN t THEN t.total ELSE 0

C17_OneAggregatePerEmployee ==
  (RevenueDone /\ transRes.ok) =>
    LET transactions == Transactions
        seen == {NamedEmployee(transactions[i]) : i \in DOMAIN transactions} \ {0}
        withoutUnnamed == getEmployeeRevenue(Ok(Named(transactions)))
    IN /\ result = withoutUnnamed
       /\ result.ok =>
            LET aggregates == result.value
            IN /\ {aggregates[k].employeeId : k \in DOMAIN aggregates} = seen
               /\ Len(aggregates) = Cardinality(seen)
               /\ \A k \in DOMAIN aggregates :
                    LET mine == TransactionsOf(transactions, aggregates[k].employeeId)
                    IN aggregates[k].revenue =
                         SumSeq([j \in 1..Len(transactions) |->
                                   IF j \in mine THEN TotalOf(transactions[j]) ELSE 0])

(* a sale of employee 1 next to one that names nobody and carries no date *)
C17_Witness ==
  /\ RevenueDone /\ result.ok
  /\ Len(Transactions) = 2
  /\ \E i, j \in DOMAIN Transactions :
       /\ NamedEmployee(Transactions[i]) = 0
       /\ "date_close" \notin DOMAIN Transactions[i]
       /\ "date" \notin DOMAIN Transactions[i]
       /\ NamedEmployee(Transactions[j]) = 1
  /\ Len(result.value) = 1
  /\ result.value[1].revenue > 0

---------------------------------------------------------------------------
(* Properties of validateCalculationParams, checked under SpecValidate *)

ValidateDone == pc = "validate_done"

Validation == result.value

Present(p, f) == f \in DOMAIN p
IsNumber(p, f) == Present(p, f) /\ f \notin p.nan

(* The rules *)
AccountRule(p) == Present(p, "account") /\ p.account # ""
AccessTokenRule(p) == Present(p, "accessToken") /\ p.accessToken # ""
MonthRule(p) == IsNumber(p, "month") /\ p.month \in 1..12
YearRule(p) == IsNumber(p, "year") /\ p.year >= 2000
ShiftRateRule(p) == IsNumber(p, "shiftRate") /\ p.shiftRate >= 0
RevenuePercentRule(p) ==
  IsNumber(p, "revenuePercent") /\ p.revenuePercent >= 0 /\ p.revenuePercent =< 100

Message(holds, msg) == IF holds THEN <<>> ELSE <<msg>>

MessagesOfViolatedRules(p) ==
  Message(AccountRule(p), "Account is required")
  \o Message(AccessTokenRule(p), "Access token is required")
  \o Message(MonthRule(p), "Invalid month (must be 1-12)")
  \o Message(YearRule(p), "Invalid year")
  \o Message(ShiftRateRule(p), "Invalid shift rate")
  \o Message(RevenuePercentRule(p), "Invalid revenue percent (must be 0-100)")

(* C12: isValid is true exactly when no rule is violated (account present, *)
(* access token present, month in 1..12, year >= 2000, shiftRate present   *)
(* and >= 0, revenuePercent present and in 0..100), and errors holds       *)
(* exactly one message for each violated rule.                             *)
C12_AllViolationsReported ==
  ValidateDone =>
    /\ Validation.isValid = (MessagesOfViolatedRules(params) = <<>>)
    /\ Validation.errors = MessagesOfViolatedRules(params)

(* C13 as stated: the parameter set {month: 13, year: 1999, shiftRate: -1,  *)
(* revenuePercent: 150} is rejected with four distinct error messages.     *)
FourInvalidFields ==
  [month |-> 13, year |-> 1999, shiftRate |-> -1, revenuePercent |-> 150, nan |-> {}]

Distinct(msgs) == \A i, j \in DOMAIN msgs : i # j => msgs[i] # msgs[j]

C13_Original_RejectedWithFourMessages ==
  (ValidateDone /\ params = FourInvalidFields) =>
    /\ ~Validation.isValid
    /\ Len(Validation.errors) = 4
    /\ Distinct(Validation.errors)

(* C13 amended: with an account and an access token, the parameter set     *)
(* {month: 13, year: 1999, shiftRate: -1, revenuePercent: 150} is rejected *)
(* with exactly four distinct messages, one for each of the four fields;   *)
(* without them, as the set is written, it is rejected with six.           *)
FourInvalidFieldsOfLocation ==
  [account |-> "acc", accessToken |-> "tok",
   month |-> 13, year |-> 1999, shiftRate |-> -1, revenuePercent |-> 150, nan |-> {}]

C13_RejectedWithFourMessagesGivenCredentials ==
  /\ (ValidateDone /\ params = FourInvalidFieldsOfLocation) =>
       /\ ~Validation.isValid
       /\ Distinct(Validation.errors)
       /\ Validation.errors = <<"Invalid month (must be 1-12)",
                                "Invalid year",
                                "Invalid shift rate",
                                "Invalid revenue percent (must be 0-100)">>
  /\ (ValidateDone /\ params = FourInvalidFields) =>
       /\ ~Validation.isValid
       /\ Distinct(Validation.errors)
       /\ Len(Validation.errors) = 6

C13_Witness ==
  /\ ValidateDone
  /\ params = FourInvalidFieldsOfLocation
  /\ Len(Validation.errors) = 4

---------------------------------------------------------------------------
(* Properties of the requested date range, checked under SpecDates *)

DatesDone == pc = "dates_done"

(* The Gregorian calendar *)
LeapYear(y) == (y % 4 = 0 /\ y % 100 # 0) \/ y % 400 = 0

LastDayOfMonth(m, y) ==
  IF m = 2 THEN (IF LeapYear(y) THEN 29 ELSE 28)
  ELSE IF m \in {4, 6, 9, 11} THEN 30
  ELSE 31

(* The eight digits of YYYYMMDD *)
EightDigits(y, m, d) ==
  LET n == y * 10000 + m * 100 + d
  IN [i \in 1..8 |-> (n \div 10^(8 - i)) % 10]

(* C16: for every month in 1..12 and year >= 2000 the transaction date     *)
(* range calculateSalaries requests is dateFrom = YYYYMM01 and dateTo =    *)
(* YYYYMMDD, DD the last day of the month under the Gregorian leap-year    *)
(* rule; month 2 of 2023 gives 20230201 to 20230228.                       *)
C16_DateRangeIsWholeMonth ==
  DatesDone =>
    /\ result.value.dateFrom = EightDigits(params.year, params.month, 1)
    /\ result.value.dateTo =
         EightDigits(params.year, params.month,
                     LastDayOfMonth(params.month, params.year))
    /\ (params.month = 2 /\ params.year = 2023) =>
         /\ result.value.dateFrom = <<2, 0, 2, 3, 0, 2, 0, 1>>
         /\ result.value.dateTo = <<2, 0, 2, 3, 0, 2, 2, 8>>

C16_Witness ==
  /\ DatesDone
  /\ params.month = 2 /\ params.year = 2023
  /\ result.value.dateTo = <<2, 0, 2, 3, 0, 2, 2, 8>>

---------------------------------------------------------------------------
(* Properties of concurrent saves, checked under SpecConcurrent *)

LinesOf(s) == sessions[s].salaryData.employees

SharedEmployee ==
  \E i \in DOMAIN LinesOf(1), j \in DOMAIN LinesOf(2) :
    LinesOf(1)[i].employeeId = LinesOf(2)[j].employeeId

Committed(s) == sessions[s].outcome = "committed"

BothEnded == \A s \in DOMAIN sessions : sessions[s].pc = "done"

(* The stored salary rows of the period, by Poster employee *)
StoredOfPeriod ==
  {[employeeId |-> e.poster_id, shiftsCount |-> r.shifts_count, totalSalary |-> r.total_salary] :
     <<r, e>> \in {x \in db.salary_reports \X db.employees :
                     /\ x[1].employee_id = x[2].id
                     /\ x[1].period_month = 1
                     /\ x[1].period_year = 2024}}

RowsOfReport(s) ==
  {[employeeId |-> LinesOf(s)[i].employeeId,
    shiftsCount |-> LinesOf(s)[i].shiftsCount,
    totalSalary |-> LinesOf(s)[i].totalSalary] : i \in DOMAIN LinesOf(s)}

(* C19: when two saveSalaryReport transactions for the same location and   *)
(* period that share a working employee run concurrently, in every         *)
(* interleaving at most one of them commits, and the stored salary rows of *)
(* the period are at all times the rows of one whole report, that of the   *)
(* call that committed (none while no call has committed), never a mixture.*)
C19_AtMostOneConcurrentSaveCommits ==
  (pc = "concurrent" /\ SharedEmployee) =>
    /\ ~(Committed(1) /\ Committed(2))
    /\ Cardinality(db.salary_reports) = Cardinality(StoredOfPeriod)
    /\ \/ /\ \A s \in DOMAIN sessions : ~Committed(s)
          /\ StoredOfPeriod = {}
       \/ \E s \in DOMAIN sessions :
            /\ Committed(s)
            /\ StoredOfPeriod = RowsOfReport(s)

(* the two calls inserted their lines in opposite orders and waited for    *)
(* each other; the server failed one, the other committed its two lines    *)
C19_Witness ==
  /\ pc = "concurrent" /\ SharedEmployee /\ BothEnded
  /\ Committed(1)
  /\ sessions[2].outcome = "deadlock detected"
  /\ LinesOf(1) # LinesOf(2)
  /\ Cardinality(StoredOfPeriod) = 2
  /\ StoredOfPeriod = RowsOfReport(1)
  /\ StoredOfPeriod # RowsOfReport(2)

=============================================================================
